---- MODULE Spec2Model ----
(***************************************************************************)
(* Velox Core: the cancellable, progress-streaming directory scanner.      *)
(*                                                                         *)
(* The model follows src-tauri/src: the session registry (state.rs), the   *)
(* scan session and its cancellation flag (types.rs), the commands of      *)
(* commands.rs and the scanner with its progress relay (scanner.rs).       *)
(*                                                                         *)
(* What is abstracted, and how:                                            *)
(*  - a ScanId (a v4 UUID) is a number of ScanIds; an id is never reused;  *)
(*  - the filesystem is the fixed tree FS; WalkDir's iteration over it is  *)
(*    the operator Walk (pre-order, max_depth, filter_entry, follow_links);*)
(*  - an Instant is kept as the time elapsed since it was taken, counted   *)
(*    in steps of TickMs and saturated at the interval it is compared to;  *)
(*  - the mpsc channel of capacity 100 is a FIFO queue of capacity         *)
(*    ChannelCapacity, scaled down so that small trees fill it;            *)
(*  - `events` is the sequence of Window::emit calls made for a scan;      *)
(*  - strings produced by human_bytes, timestamps and elapsed_ms are left  *)
(*    out of the records: no statement here reads them.                    *)
(***************************************************************************)
EXTENDS Integers, Sequences, FiniteSets, TLC

\* ---------------------------------------------------------------- bounds
\* Number of scan ids of a run: the ids of the scans (one under Spec, two
\* under SpecMulti) and ids that name no session.
MaxSessions == 2
\* Capacity of the progress channel of the model (100 in scanner.rs:75).
ChannelCapacity == 2
\* Granularity of the clock, in milliseconds.
TickMs == 25

\* ------------------------------------------------------ program constants
\* scanner.rs:84, the relay's throttle: last_emit.elapsed().as_millis() >= 50
EmitIntervalMs == 50
\* commands.rs:42, ScanConfig.progress_interval_ms
ProgressIntervalMs == 50
\* commands.rs:39, request.max_depth.unwrap_or(100)
DefaultMaxDepth == 100

ScanIds == 1..MaxSessions

Min(a, b) == IF a < b THEN a ELSE b

\* Option<T>: None is <<>>, Some(x) is <<x>>.
None == <<>>
Some(x) == <<x>>

\* ------------------------------------------------------------ filesystem
\* A file name is an OsStr: a sequence of bytes, not all of them valid UTF-8.
\* The names of the tree use ASCII bytes and the byte 255, which no UTF-8
\* encoding contains. A str is the sequence of its code points.
\* scanner.rs:148, the '.' of starts_with('.')
Dot == 46
\* OsStr::to_str: Some(str) if the bytes are valid UTF-8, None otherwise.
to_str(name) ==
  IF \A i \in DOMAIN name : name[i] < 128 THEN Some(name) ELSE None
\* OsStr::to_string_lossy: every invalid byte becomes U+FFFD.
to_string_lossy(name) ==
  [i \in DOMAIN name |-> IF name[i] < 128 THEN name[i] ELSE 65533]
\* str::starts_with(char)
starts_with(str, c) == str # <<>> /\ str[1] = c

\* The tree under /data. `size` is what metadata().len() reports for the node
\* itself; `readable` says whether read_dir succeeds on a directory; `target`
\* is the node a symlink points to (0 otherwise).
\* The file /data/.\xFF has a name of two bytes, a dot and the byte 255.
\*   1 /data            4 /data/.git/cfg     6 /data/priv/key (never listed)
\*   2 /data/.\xFF      5 /data/priv         7 /data/link -> .\xFF
\*   3 /data/.git
FS ==
  <<
    \* "data"
    [name |-> <<100, 97, 116, 97>>,     kind |-> "dir",     size |-> 4, children |-> <<2, 3, 5, 7>>,    readable |-> TRUE,  target |-> 0],
    \* a dot and a byte that is not UTF-8
    [name |-> <<46, 255>>,               kind |-> "file",    size |-> 1, children |-> <<>>,              readable |-> TRUE,  target |-> 0],
    \* ".git"
    [name |-> <<46, 103, 105, 116>>,    kind |-> "dir",     size |-> 4, children |-> <<4>>,             readable |-> TRUE,  target |-> 0],
    \* "cfg"
    [name |-> <<99, 102, 103>>,         kind |-> "file",    size |-> 2, children |-> <<>>,              readable |-> TRUE,  target |-> 0],
    \* "priv"
    [name |-> <<112, 114, 105, 118>>,   kind |-> "dir",     size |-> 4, children |-> <<6>>,             readable |-> FALSE, target |-> 0],
    \* "key"
    [name |-> <<107, 101, 121>>,        kind |-> "file",    size |-> 3, children |-> <<>>,              readable |-> TRUE,  target |-> 0],
    \* "link"
    [name |-> <<108, 105, 110, 107>>,   kind |-> "symlink", size |-> 5, children |-> <<>>,              readable |-> TRUE,  target |-> 2]
  >>

Nodes == DOMAIN FS
\* A path that names no node of the filesystem.
MissingPath == 0
Paths == Nodes \cup {MissingPath}

\* Path::exists and Path::is_dir (both follow symlinks).
PathExists(p) == p \in Nodes
Resolve(n) == IF FS[n].kind = "symlink" THEN FS[n].target ELSE n
\* Mutant: the is_dir test of scan() left out.
PathIsDirUnchecked(p) == TRUE
PathIsDir(p) == p \in Nodes /\ FS[Resolve(p)].kind = "dir"

\* ---------------------------------------------------------------- WalkDir
\* DirEntry::file_type: the node's own type, or its target's under follow_links.
FileTypeOf(n, follow) == IF follow THEN FS[Resolve(n)].kind ELSE FS[n].kind
\* DirEntry::metadata().len(): symlink_metadata unless follow_links.
MetadataLen(n, follow) == IF follow THEN FS[Resolve(n)].size ELSE FS[n].size

\* The closure given to filter_entry.
FilterEntry(n, include_hidden) ==
  IF ~include_hidden
  THEN ~(IF to_str(FS[n].name) = None THEN FALSE
         ELSE starts_with(to_str(FS[n].name)[1], Dot))
  ELSE TRUE

\* An item the walker yields: Ok(DirEntry) or Err(walkdir::Error).
OkEntry(n, d, follow) ==
  [ok |-> TRUE, node |-> n, depth |-> d,
   file_type |-> FileTypeOf(n, follow), len |-> MetadataLen(n, follow)]
ErrEntry(n, d) ==
  [ok |-> FALSE, node |-> n, depth |-> d, file_type |-> "error", len |-> 0]

RECURSIVE WalkNode(_, _, _)
RECURSIVE WalkChildren(_, _, _)
\* The items yielded for node n at depth d and everything below it.
WalkNode(n, d, config) ==
  IF ~FilterEntry(n, config.include_hidden) THEN <<>>
  ELSE <<OkEntry(n, d, config.follow_symlinks)>> \o
       (IF FileTypeOf(n, config.follow_symlinks) = "dir" /\ d < config.max_depth
        THEN IF FS[Resolve(n)].readable
             THEN WalkChildren(FS[Resolve(n)].children, d + 1, config)
             ELSE <<ErrEntry(n, d + 1)>>
        ELSE <<>>)
WalkChildren(cs, d, config) ==
  IF cs = <<>> THEN <<>>
  ELSE WalkNode(Head(cs), d, config) \o WalkChildren(Tail(cs), d, config)

\* Mutant: the filter is not applied to the root.
WalkRootUnfiltered(root, config) ==
  IF FilterEntry(root, config.include_hidden) THEN WalkNode(root, 0, config)
  ELSE <<OkEntry(root, 0, config.follow_symlinks)>>
\* WalkDir::new(root).max_depth(..).follow_links(..).into_iter().filter_entry(..)
Walk(root, config) == WalkNode(root, 0, config)


\* ------------------------------------------------------------------ state
VARIABLES
  request,            \* scan_directory invocations of the front end: Option<ScanRequest> per id
  active_scans,       \* VeloxState.active_scans: scan id -> ScanSession
  cancelled,          \* the AtomicBool behind each session's `cancelled`
  reply,              \* what the last cancel_scan command returned
  pc,                 \* where each scan_directory call stands
  walker,             \* execute_scan: the items the walker has yet to yield
  entry_result,       \* execute_scan: the item the loop is on
  entries,            \* execute_scan: Vec<FileEntry>
  total_files,        \* execute_scan: counters
  total_directories,
  total_size,
  last_progress,      \* execute_scan: time elapsed since last_progress
  channel,            \* the mpsc channel between execute_scan (tx) and the relay (rx)
  relay,              \* the spawned progress emitter: "unspawned", "running", "done"
  last_emit,          \* relay: time elapsed since last_emit
  events,             \* the Window::emit calls made for each scan, in order
  sent,               \* history: every snapshot execute_scan has sent, in order
  emit_gap,           \* history: last_emit.elapsed() at each progress event emitted
  result              \* scan(): Option<VeloxResult<ScanResult>>

registryVars == <<active_scans, cancelled, reply>>
scannerVars == <<walker, entry_result, entries, total_files, total_directories,
                 total_size, last_progress, sent, result>>
relayVars == <<relay, last_emit, events, emit_gap>>
vars == <<request, registryVars, pc, scannerVars, channel, relayVars>>

\* ------------------------------------------------------------ data model
\* ScanRequest (types.rs): path, max_depth, include_hidden, follow_symlinks.
ScanRequest(path, max_depth, include_hidden, follow_symlinks) ==
  [path |-> path, max_depth |-> max_depth,
   include_hidden |-> include_hidden, follow_symlinks |-> follow_symlinks]

\* ScanSession::new: status Idle, flag false (the flag itself is cancelled[id]).
NewScanSession(id, root_path) ==
  [id |-> id, root_path |-> root_path, status |-> "Idle"]

\* Mutant: the max_depth of the request is ignored.
ScanConfigOfDefaultDepth(req) ==
  [max_depth |-> DefaultMaxDepth,
   include_hidden |-> req.include_hidden,
   follow_symlinks |-> req.follow_symlinks,
   progress_interval_ms |-> ProgressIntervalMs]
\* The ScanConfig scan_directory builds from the request.
ScanConfigOf(req) ==
  [max_depth |-> IF req.max_depth = None THEN DefaultMaxDepth ELSE req.max_depth[1],
   include_hidden |-> req.include_hidden,
   follow_symlinks |-> req.follow_symlinks,
   progress_interval_ms |-> ProgressIntervalMs]

Request(s) == request[s][1]
Config(s) == ScanConfigOf(Request(s))
RootPath(s) == Request(s).path

\* VeloxResult<ScanResult>
Ok(v) == [ok |-> TRUE, value |-> v, error |-> "none"]
Err(e) == [ok |-> FALSE, value |-> <<>>, error |-> e]

\* ------------------------------------------------------------- registry
\* ScanSession::is_cancelled and ScanSession::cancel on the shared flag.
\* Mutant: the scanner never sees the flag.
is_cancelled_never(s) == FALSE
\* Mutant: the flag is consulted before the first node only.
is_cancelled_before_first_node(s) == cancelled[s] /\ entries[s] = <<>>
is_cancelled(s) == cancelled[s]
\* Mutant: cancel flips the flag instead of setting it.
SessionCancelToggle(s) == [cancelled EXCEPT ![s] = ~cancelled[s]]
SessionCancel(s) == [cancelled EXCEPT ![s] = TRUE]

\* VeloxState::register_scan: insert under the write lock.
register_scan(session) ==
  [id \in DOMAIN active_scans \cup {session.id} |->
     IF id = session.id THEN session ELSE active_scans[id]]

\* VeloxState::get_scan
get_scan(scan_id) ==
  IF scan_id \in DOMAIN active_scans THEN Some(active_scans[scan_id]) ELSE None

\* Mutant: remove_scan empties the map.
remove_scan_all(scan_id) == <<>>
\* VeloxState::remove_scan
remove_scan(scan_id) ==
  [id \in DOMAIN active_scans \ {scan_id} |-> active_scans[id]]

\* VeloxState::active_scan_count
active_scan_count ==
  Cardinality({id \in DOMAIN active_scans : active_scans[id].status = "Scanning"})

\* VeloxState::cancel_scan: the flags after the call, and the value returned.
\* Mutant: cancelling one session flags every session.
cancel_scan_flags_all(scan_id) ==
  IF get_scan(scan_id) # None THEN [s \in ScanIds |-> TRUE] ELSE cancelled
cancel_scan_flags(scan_id) ==
  IF get_scan(scan_id) # None THEN SessionCancel(scan_id) ELSE cancelled
cancel_scan_returns(scan_id) == get_scan(scan_id) # None

\* commands::get_scan_status
get_scan_status(scan_id) ==
  IF get_scan(scan_id) # None
  THEN Ok(get_scan(scan_id)[1].status)
  ELSE Err("NoActiveScan")

\* commands::heartbeat, the active_scans field of the response
heartbeat_active_scans == active_scan_count

\* -------------------------------------------------------------- scanner
\* The FileEntry execute_scan builds from an Ok(entry).
FileEntryOf(e) ==
  [name |-> to_string_lossy(FS[e.node].name), path |-> e.node, size |-> e.len,
   is_directory |-> e.file_type = "dir",
   is_file |-> e.file_type = "file",
   is_symlink |-> e.file_type = "symlink",
   depth |-> e.depth]

\* The counters after the `if is_dir .. else if is_file ..` of execute_scan.
DirsAfter(dirs, e) == IF e.file_type = "dir" THEN dirs + 1 ELSE dirs
FilesAfter(files, e) ==
  IF e.file_type = "dir" THEN files
  ELSE IF e.file_type = "file" THEN files + 1 ELSE files
\* Mutant: the size of every entry is added, directories included.
SizeAfterAllEntries(size, e) == size + e.len
SizeAfter(size, e) ==
  IF e.file_type = "dir" THEN size
  ELSE IF e.file_type = "file" THEN size + e.len ELSE size

\* The three ScanProgress values execute_scan sends. current_path is a node,
\* MissingPath standing for String::new().
ScanningProgress(s) ==
  [scan_id |-> s, current_path |-> entry_result[s][1].node,
   files_scanned |-> total_files[s],
   directories_scanned |-> total_directories[s],
   bytes_scanned |-> total_size[s],
   progress_percent |-> 0, estimated_total |-> None, status |-> "Scanning"]
\* Mutant: the Cancelled snapshot built with its counters at zero.
CancelledProgressZeroed(s) ==
  [scan_id |-> s, current_path |-> MissingPath,
   files_scanned |-> 0, directories_scanned |-> 0, bytes_scanned |-> 0,
   progress_percent |-> 0, estimated_total |-> None, status |-> "Cancelled"]
CancelledProgress(s) ==
  [scan_id |-> s, current_path |-> MissingPath,
   files_scanned |-> total_files[s],
   directories_scanned |-> total_directories[s],
   bytes_scanned |-> total_size[s],
   progress_percent |-> 0, estimated_total |-> None, status |-> "Cancelled"]
\* Mutant: the estimated total is the number of entries.
CompletedProgressEntryCount(s) ==
  [scan_id |-> s, current_path |-> MissingPath,
   files_scanned |-> total_files[s],
   directories_scanned |-> total_directories[s],
   bytes_scanned |-> total_size[s],
   progress_percent |-> 100,
   estimated_total |-> Some(Len(entries[s])),
   status |-> "Completed"]
CompletedProgress(s) ==
  [scan_id |-> s, current_path |-> MissingPath,
   files_scanned |-> total_files[s],
   directories_scanned |-> total_directories[s],
   bytes_scanned |-> total_size[s],
   progress_percent |-> 100,
   estimated_total |-> Some(total_files[s] + total_directories[s]),
   status |-> "Completed"]

\* The ScanResult execute_scan returns.
ScanResultOf(s) ==
  [scan_id |-> s, root_path |-> RootPath(s),
   total_files |-> total_files[s],
   total_directories |-> total_directories[s],
   total_size |-> total_size[s],
   entries |-> entries[s], status |-> "Completed"]

\* Sender::send(..).await completes once the channel has room; until then
\* the sending task is suspended.
\* Mutant: a snapshot sent while another is waiting is dropped.
EnqueueUnlessBusy(q, progress) == IF q # <<>> THEN q ELSE Append(q, progress)
\* Mutant: the channel hands out the newest snapshot first.
EnqueueInFront(q, progress) == <<progress>> \o q
\* The channel is FIFO: a snapshot sent joins the back of the queue, recv
\* takes the front.
Enqueue(q, progress) == Append(q, progress)

\* Mutant: a send that never waits for room.
CanSendAlways(s) == TRUE
CanSend(s) == Len(channel[s]) < ChannelCapacity

\* Mutant: a sender outlives execute_scan.
SenderKept(s) == FALSE
\* execute_scan owns tx: it is dropped when execute_scan returns.
SenderDropped(s) == pc[s] \in {"join", "scan_returned", "done"}

\* The relay's throttle.
\* Mutant: the throttle applied to every snapshot, whatever its status.
ShouldEmitThrottleOnly(elapsed, progress) == elapsed >= EmitIntervalMs
\* Mutant: the interval must be exceeded, not reached.
ShouldEmitStrict(elapsed, progress) ==
  elapsed > EmitIntervalMs \/ progress.status # "Scanning"
ShouldEmit(elapsed, progress) ==
  elapsed >= EmitIntervalMs \/ progress.status # "Scanning"

\* execute_scan's throttle.
ProgressDue(s) == last_progress[s] >= Config(s).progress_interval_ms

\* progress_handle.await: scan() resumes when the relay task has finished.
\* Mutant: scan() does not await the relay's handle.
RelayJoinedNoAwait(s) == TRUE
RelayJoined(s) == relay[s] = "done"

\* The event scan() emits for the result of execute_scan.
FinalEvent(s, res) ==
  IF res.ok
  THEN [name |-> "velox:scan:complete", payload |-> res.value]
  ELSE [name |-> "velox:scan:error", payload |-> [scanId |-> s, error |-> res.error]]
ProgressEvent(progress) == [name |-> "velox:scan:progress", payload |-> progress]

\* ------------------------------------------------------------------ Init
Depths == {Some(0), Some(1), None}
\* Every request the front end can make on FS: a missing path, /data,
\* /data/.git and the file /data/.git/cfg. The path of a request is a String,
\* so it names no node whose name is not UTF-8.
Requests ==
  {ScanRequest(p, d, h, f) :
     p \in {MissingPath, 1, 3, 4}, d \in Depths, h \in BOOLEAN, f \in BOOLEAN}
\* The requests of runs with several concurrent scans.
SmallRequests ==
  {ScanRequest(p, Some(1), FALSE, FALSE) : p \in {MissingPath, 5}}

InitState ==
  /\ active_scans = <<>>
  /\ cancelled = [s \in ScanIds |-> FALSE]
  /\ reply = None
  /\ pc = [s \in ScanIds |-> "idle"]
  /\ walker = [s \in ScanIds |-> <<>>]
  /\ entry_result = [s \in ScanIds |-> None]
  /\ entries = [s \in ScanIds |-> <<>>]
  /\ total_files = [s \in ScanIds |-> 0]
  /\ total_directories = [s \in ScanIds |-> 0]
  /\ total_size = [s \in ScanIds |-> 0]
  /\ last_progress = [s \in ScanIds |-> 0]
  /\ channel = [s \in ScanIds |-> <<>>]
  /\ relay = [s \in ScanIds |-> "unspawned"]
  /\ last_emit = [s \in ScanIds |-> 0]
  /\ events = [s \in ScanIds |-> <<>>]
  /\ sent = [s \in ScanIds |-> <<>>]
  /\ emit_gap = [s \in ScanIds |-> <<>>]
  /\ result = [s \in ScanIds |-> None]

\* One scan, of any request; the other ids are never issued.
Init ==
  /\ request \in {[s \in ScanIds |-> IF s = 1 THEN Some(r) ELSE None] : r \in Requests}
  /\ InitState

\* Two concurrent scans, each of a small request; any further id is never
\* issued.
InitMulti ==
  /\ request \in {f \in [ScanIds -> {Some(r) : r \in SmallRequests} \cup {None}] :
                    \A s \in ScanIds : (f[s] = None) <=> (s > 2)}
  /\ InitState

\* --------------------------------------------------------------- actions
\* commands::scan_directory up to the call of scanner.scan(): the session is
\* created and registered, and looked up again.
ScanDirectory(s) ==
  /\ pc[s] = "idle"
  /\ request[s] # None
  /\ active_scans' = register_scan(NewScanSession(s, RootPath(s)))
  /\ cancelled' = [cancelled EXCEPT ![s] = FALSE]
  /\ pc' = [pc EXCEPT ![s] = "scan"]
  /\ UNCHANGED <<request, reply, scannerVars, channel, relayVars>>

\* DirectoryScanner::scan up to the call of execute_scan: the path is
\* validated; then the channel is created, the relay spawned, and execute_scan
\* sets up its locals and the walker.
ScanValidate(s) ==
  /\ pc[s] = "scan"
  /\ IF ~PathExists(RootPath(s)) \/ ~PathIsDir(RootPath(s))
     THEN /\ result' = [result EXCEPT ![s] = Some(Err("InvalidPath"))]
          /\ pc' = [pc EXCEPT ![s] = "scan_returned"]
          /\ UNCHANGED <<channel, relay, last_emit, walker, entries, total_files,
                         total_directories, total_size, last_progress>>
     ELSE /\ channel' = [channel EXCEPT ![s] = <<>>]
          /\ relay' = [relay EXCEPT ![s] = "running"]
          /\ last_emit' = [last_emit EXCEPT ![s] = 0]
          /\ entries' = [entries EXCEPT ![s] = <<>>]
          /\ total_files' = [total_files EXCEPT ![s] = 0]
          /\ total_directories' = [total_directories EXCEPT ![s] = 0]
          /\ total_size' = [total_size EXCEPT ![s] = 0]
          /\ walker' = [walker EXCEPT ![s] = Walk(RootPath(s), Config(s))]
          /\ last_progress' = [last_progress EXCEPT ![s] = 0]
          /\ pc' = [pc EXCEPT ![s] = "loop"]
          /\ UNCHANGED result
  /\ UNCHANGED <<request, registryVars, entry_result, events, emit_gap, sent>>

\* The head of `for entry_result in walker`: the walker yields its next item,
\* or the loop ends; with an item in hand the cancellation flag is tested.
WalkerNext(s) ==
  /\ pc[s] = "loop"
  /\ IF walker[s] = <<>>
     THEN /\ pc' = [pc EXCEPT ![s] = "send_completed"]
          /\ UNCHANGED <<walker, entry_result>>
     ELSE /\ entry_result' = [entry_result EXCEPT ![s] = Some(Head(walker[s]))]
          /\ walker' = [walker EXCEPT ![s] = Tail(walker[s])]
          /\ pc' = [pc EXCEPT ![s] =
                      IF is_cancelled(s) THEN "send_cancelled" ELSE "visit"]
  /\ UNCHANGED <<request, registryVars, entries, total_files, total_directories,
                 total_size, last_progress, sent, result, channel, relayVars>>

\* The body of the loop for an Ok(entry): counters, the FileEntry, the throttle.
VisitOk(s) ==
  /\ pc[s] = "visit"
  /\ entry_result[s][1].ok
  /\ LET e == entry_result[s][1] IN
       /\ total_directories' =
            [total_directories EXCEPT ![s] = DirsAfter(total_directories[s], e)]
       /\ total_files' = [total_files EXCEPT ![s] = FilesAfter(total_files[s], e)]
       /\ total_size' = [total_size EXCEPT ![s] = SizeAfter(total_size[s], e)]
       /\ entries' = [entries EXCEPT ![s] = Append(entries[s], FileEntryOf(e))]
  /\ pc' = [pc EXCEPT ![s] = IF ProgressDue(s) THEN "send_progress" ELSE "loop"]
  /\ UNCHANGED <<request, registryVars, walker, entry_result, last_progress, sent,
                 result, channel, relayVars>>

\* Mutant: an Err(e) ends execute_scan with an error.
VisitErrAborts(s) ==
  /\ pc[s] = "visit"
  /\ ~entry_result[s][1].ok
  /\ result' = [result EXCEPT ![s] = Some(Err("Io"))]
  /\ pc' = [pc EXCEPT ![s] = "join"]
  /\ UNCHANGED <<request, registryVars, walker, entry_result, entries, total_files,
                 total_directories, total_size, last_progress, sent, channel,
                 relayVars>>
\* The body of the loop for an Err(e): a warning, and on to the next item.
VisitErr(s) ==
  /\ pc[s] = "visit"
  /\ ~entry_result[s][1].ok
  /\ pc' = [pc EXCEPT ![s] = "loop"]
  /\ UNCHANGED <<request, registryVars, scannerVars, channel, relayVars>>

\* tx.send(ScanProgress { status: Scanning, .. }).await, then last_progress.
SendProgress(s) ==
  /\ pc[s] = "send_progress"
  /\ CanSend(s)
  /\ channel' = [channel EXCEPT ![s] = Enqueue(channel[s], ScanningProgress(s))]
  /\ sent' = [sent EXCEPT ![s] = Append(sent[s], ScanningProgress(s))]
  /\ last_progress' = [last_progress EXCEPT ![s] = 0]
  /\ pc' = [pc EXCEPT ![s] = "loop"]
  /\ UNCHANGED <<request, registryVars, walker, entry_result, entries, total_files,
                 total_directories, total_size, result, relayVars>>

\* tx.send(ScanProgress { status: Cancelled, .. }).await and
\* return Err(ScanCancelled): execute_scan is over and tx dropped.
SendCancelled(s) ==
  /\ pc[s] = "send_cancelled"
  /\ CanSend(s)
  /\ channel' = [channel EXCEPT ![s] = Enqueue(channel[s], CancelledProgress(s))]
  /\ sent' = [sent EXCEPT ![s] = Append(sent[s], CancelledProgress(s))]
  /\ result' = [result EXCEPT ![s] = Some(Err("ScanCancelled"))]
  /\ last_progress' = [last_progress EXCEPT ![s] = 0]
  /\ pc' = [pc EXCEPT ![s] = "join"]
  /\ UNCHANGED <<request, registryVars, walker, entry_result, entries, total_files,
                 total_directories, total_size, relayVars>>

\* After the loop: tx.send(ScanProgress { status: Completed, .. }).await and
\* Ok(ScanResult { .. }): execute_scan is over and tx dropped.
SendCompleted(s) ==
  /\ pc[s] = "send_completed"
  /\ CanSend(s)
  /\ channel' = [channel EXCEPT ![s] = Enqueue(channel[s], CompletedProgress(s))]
  /\ sent' = [sent EXCEPT ![s] = Append(sent[s], CompletedProgress(s))]
  /\ result' = [result EXCEPT ![s] = Some(Ok(ScanResultOf(s)))]
  /\ last_progress' = [last_progress EXCEPT ![s] = 0]
  /\ pc' = [pc EXCEPT ![s] = "join"]
  /\ UNCHANGED <<request, registryVars, walker, entry_result, entries, total_files,
                 total_directories, total_size, relayVars>>

\* The relay: rx.recv().await yields a snapshot, which is emitted or throttled.
RelayRecv(s) ==
  /\ relay[s] = "running"
  /\ channel[s] # <<>>
  /\ LET progress == Head(channel[s]) IN
       IF ShouldEmit(last_emit[s], progress)
       THEN /\ events' = [events EXCEPT ![s] = Append(events[s], ProgressEvent(progress))]
            /\ emit_gap' = [emit_gap EXCEPT ![s] = Append(emit_gap[s], last_emit[s])]
            /\ last_emit' = [last_emit EXCEPT ![s] = 0]
       ELSE UNCHANGED <<events, emit_gap, last_emit>>
  /\ channel' = [channel EXCEPT ![s] = Tail(channel[s])]
  /\ UNCHANGED <<request, registryVars, pc, scannerVars, relay>>

\* The relay: rx.recv().await yields None (channel empty, sender dropped);
\* the task ends.
RelayEnd(s) ==
  /\ relay[s] = "running"
  /\ channel[s] = <<>>
  /\ SenderDropped(s)
  /\ relay' = [relay EXCEPT ![s] = "done"]
  /\ last_emit' = [last_emit EXCEPT ![s] = 0]
  /\ UNCHANGED <<request, registryVars, pc, scannerVars, channel, events, emit_gap>>

\* scan() after execute_scan: progress_handle.await, the final event, return.
ScanFinish(s) ==
  /\ pc[s] = "join"
  /\ RelayJoined(s)
  /\ events' = [events EXCEPT ![s] = Append(events[s], FinalEvent(s, result[s][1]))]
  /\ pc' = [pc EXCEPT ![s] = "scan_returned"]
  /\ UNCHANGED <<request, registryVars, scannerVars, channel, relay, last_emit,
                 emit_gap>>

\* scan_directory after scanner.scan(): remove_scan, and the result goes back
\* to the front end.
ScanCleanup(s) ==
  /\ pc[s] = "scan_returned"
  /\ active_scans' = remove_scan(s)
  /\ pc' = [pc EXCEPT ![s] = "done"]
  /\ UNCHANGED <<request, cancelled, reply, scannerVars, channel, relayVars>>

\* commands::cancel_scan
CancelScan(scan_id) ==
  /\ cancelled' = cancel_scan_flags(scan_id)
  /\ reply' = Some([scan_id |-> scan_id,
                    returned |-> IF cancel_scan_returns(scan_id)
                                 THEN Ok(TRUE) ELSE Err("NoActiveScan")])
  /\ UNCHANGED <<request, active_scans, pc, scannerVars, channel, relayVars>>

\* Time passes: every live Instant is TickMs older.
Tick ==
  /\ last_progress' =
       [s \in ScanIds |->
          IF pc[s] \in {"loop", "visit", "send_progress"}
          THEN Min(last_progress[s] + TickMs, ProgressIntervalMs)
          ELSE last_progress[s]]
  /\ last_emit' =
       [s \in ScanIds |->
          IF relay[s] = "running"
          THEN Min(last_emit[s] + TickMs, EmitIntervalMs)
          ELSE last_emit[s]]
  /\ UNCHANGED <<request, registryVars, pc, walker, entry_result, entries,
                 total_files, total_directories, total_size, sent, result,
                 channel, relay, events, emit_gap>>

Next ==
  \/ \E s \in ScanIds : ScanDirectory(s)
  \/ \E s \in ScanIds : ScanValidate(s)
  \/ \E s \in ScanIds : WalkerNext(s)
  \/ \E s \in ScanIds : VisitOk(s)
  \/ \E s \in ScanIds : VisitErr(s)
  \/ \E s \in ScanIds : SendProgress(s)
  \/ \E s \in ScanIds : SendCancelled(s)
  \/ \E s \in ScanIds : SendCompleted(s)
  \/ \E s \in ScanIds : RelayRecv(s)
  \/ \E s \in ScanIds : RelayEnd(s)
  \/ \E s \in ScanIds : ScanFinish(s)
  \/ \E s \in ScanIds : ScanCleanup(s)
  \/ \E scan_id \in ScanIds : CancelScan(scan_id)
  \/ Tick

Spec == Init /\ [][Next]_vars
SpecMulti == InitMulti /\ [][Next]_vars

\* The steps of the scan_directory future of s and of the relay task it
\* spawns. The runtime polls every task that is ready, so each task that can
\* take a step eventually takes one; cancel_scan and the clock are not owed
\* any step.
ScanTask(s) ==
  \/ ScanDirectory(s) \/ ScanValidate(s) \/ WalkerNext(s) \/ VisitOk(s)
  \/ VisitErr(s) \/ SendProgress(s) \/ SendCancelled(s) \/ SendCompleted(s)
  \/ ScanFinish(s) \/ ScanCleanup(s)
RelayTask(s) == RelayRecv(s) \/ RelayEnd(s)
Fairness == \A s \in ScanIds : WF_vars(ScanTask(s)) /\ WF_vars(RelayTask(s))
\* The runs under fairness: one scan, of a missing path, of /data or of the
\* unreadable /data/priv, one level deep.
FairRequests ==
  {ScanRequest(p, Some(1), TRUE, FALSE) : p \in {MissingPath, 1, 5}}
InitFair ==
  /\ request \in {[s \in ScanIds |-> IF s = 1 THEN Some(r) ELSE None] : r \in FairRequests}
  /\ InitState
SpecFair == InitFair /\ [][Next]_vars /\ Fairness

\* ---------------------------------------------------------------- claims
Last(q) == q[Len(q)]
IsProgress(ev) == ev.name = "velox:scan:progress"
\* scan() has returned: its outcome is with the caller.
Returned(s) == pc[s] \in {"scan_returned", "done"}
\* scan() got past the validation of the path.
Validated(s) == pc[s] \in {"loop", "visit", "send_progress", "send_cancelled",
                           "send_completed", "join"}
                \/ (Returned(s) /\ result[s] # Some(Err("InvalidPath")))
\* A velox:scan:complete or velox:scan:error event has been emitted.
HasFinalEvent(s) == \E i \in DOMAIN events[s] : ~IsProgress(events[s][i])
CancelledOutcome(s) == result[s] = Some(Err("ScanCancelled"))
AtSend(s) == pc[s] \in {"send_progress", "send_cancelled", "send_completed"}

\* C1: for a scan that passed validation, once the final event is emitted or
\* the outcome returned, the relay has terminated with the channel drained,
\* and the terminal snapshot (the last one sent) was emitted as a progress
\* event right before the final event.
C1_OutcomeAfterRelay ==
  \A s \in ScanIds :
    (Validated(s) /\ (Returned(s) \/ HasFinalEvent(s))) =>
      /\ relay[s] = "done"
      /\ channel[s] = <<>>
      /\ Len(events[s]) >= 2
      /\ ~IsProgress(Last(events[s]))
      /\ events[s][Len(events[s]) - 1] = ProgressEvent(Last(sent[s]))
      /\ Last(sent[s]).status \in {"Completed", "Cancelled"}
      /\ \A i \in 1..(Len(events[s]) - 1) : IsProgress(events[s][i])

\* C1 witness: a completed scan has returned after a Scanning and the
\* Completed snapshot were forwarded.
C1_Witness ==
  \E s \in ScanIds :
    /\ pc[s] = "scan_returned" /\ result[s] # None /\ result[s][1].ok
    /\ Len(events[s]) >= 3

\* C2 (as claimed, and granting it the validation of the path): at the step
\* in which a validated scan returns, if the flag was set before that step,
\* the outcome is ScanCancelled, no result is emitted and the last snapshot
\* produced is Cancelled.
C2_CancelBeforeReturnAlwaysCancels ==
  [][\A s \in ScanIds :
       (cancelled[s] /\ Validated(s) /\ ~Returned(s) /\ Returned(s)') =>
         /\ CancelledOutcome(s)'
         /\ sent'[s] # <<>> /\ Last(sent'[s]).status = "Cancelled"
         /\ \A i \in DOMAIN events'[s] : events'[s][i].name # "velox:scan:complete"
    ]_vars

\* The walk of s still has a pre-node check ahead of it.
PendingCheck(s) ==
  \/ pc[s] \in {"loop", "visit", "send_progress"} /\ walker[s] # <<>>
  \/ pc[s] = "scan" /\ PathIsDir(RootPath(s)) /\ Walk(RootPath(s), Config(s)) # <<>>
\* The scan is bound to end cancelled, or has.
OnCancelPath(s) ==
  \/ cancelled[s] /\ PendingCheck(s)
  \/ pc[s] = "send_cancelled"
  \/ /\ pc[s] \in {"join", "scan_returned", "done"}
     /\ CancelledOutcome(s)
     /\ sent[s] # <<>> /\ Last(sent[s]).status = "Cancelled"
     /\ \A i \in DOMAIN events[s] : events[s][i].name # "velox:scan:complete"

\* C2 (amended): once the flag is set while the walk still has a pre-node
\* check ahead, every later step keeps the scan on the way to ScanCancelled:
\* it ends with that error, no ScanResult is emitted, and the last snapshot
\* produced is Cancelled.
C2_CancelBeforeACheckCancels ==
  [][\A s \in ScanIds : OnCancelPath(s) => OnCancelPath(s)']_vars

\* C2 witness: a scan cancelled in the middle of its walk has returned.
C2_Witness ==
  \E s \in ScanIds :
    /\ pc[s] = "scan_returned" /\ CancelledOutcome(s)
    /\ entries[s] # <<>> /\ walker[s] # <<>>

\* A step of execute_scan out of one of its sends.
SendStep(s) == SendProgress(s) \/ SendCancelled(s) \/ SendCompleted(s)

C4_TerminalAlwaysForwarded ==
  \A s \in ScanIds :
    \A i \in DOMAIN sent[s] :
      sent[s][i].status # "Scanning" =>
        \/ \E j \in DOMAIN channel[s] : channel[s][j] = sent[s][i]
        \/ \E j \in DOMAIN events[s] : events[s][j] = ProgressEvent(sent[s][i])

\* C4 witness: a terminal snapshot was emitted less than 50 ms after the
\* previous emit.
C4_Witness ==
  \E s \in ScanIds :
    /\ events[s] # <<>> /\ IsProgress(Last(events[s]))
    /\ Last(events[s]).payload.status # "Scanning"
    /\ Len(events[s]) >= 2
    /\ Last(emit_gap[s]) < EmitIntervalMs

\* C5 (as claimed): no scan returns an outcome without a terminal event
\* having been emitted.
C5_EveryOutcomeHasEvent ==
  \A s \in ScanIds : Returned(s) => HasFinalEvent(s)

\* The root is missing or is no directory (read off FS, not through scan()).
NotADirectory(p) == p \notin Nodes \/ FS[p].kind # "dir"

\* C6: a scan whose root is missing or no directory returns InvalidPath and
\* nothing else happens: no node visited, no channel or relay, no snapshot
\* sent or emitted, no ScanResult; and only such a scan returns InvalidPath.
C6_InvalidPathBeforeAnyWork ==
  \A s \in ScanIds :
    /\ (request[s] # None /\ NotADirectory(RootPath(s)) /\ pc[s] # "idle") =>
         /\ pc[s] \in {"scan", "scan_returned", "done"}
         /\ Returned(s) => result[s] = Some(Err("InvalidPath"))
         /\ entries[s] = <<>> /\ walker[s] = <<>> /\ entry_result[s] = None
         /\ total_files[s] = 0 /\ total_directories[s] = 0 /\ total_size[s] = 0
         /\ relay[s] = "unspawned" /\ channel[s] = <<>>
         /\ sent[s] = <<>> /\ events[s] = <<>>
    /\ result[s] = Some(Err("InvalidPath")) => NotADirectory(RootPath(s))

\* C6 witness: a scan of a file has returned InvalidPath with the flag set.
C6_Witness ==
  \E s \in ScanIds :
    /\ Returned(s) /\ result[s] = Some(Err("InvalidPath"))
    /\ RootPath(s) \in Nodes
    /\ cancelled[s]

\* The walk of s is running: execute_scan has begun and not returned.
WalkRunning(s) ==
  pc[s] \in {"loop", "visit", "send_progress", "send_cancelled", "send_completed"}

\* C7 (as claimed): a registered session's status reads Idle before the walk,
\* Scanning while it runs, and a terminal status once the walk is over.
C7_StatusFollowsTheWalk ==
  \A s \in DOMAIN active_scans :
    get_scan_status(s) =
      Ok(IF pc[s] = "scan" THEN "Idle"
         ELSE IF WalkRunning(s) THEN "Scanning"
         ELSE IF result[s][1].ok THEN "Completed"
         ELSE IF CancelledOutcome(s) THEN "Cancelled" ELSE "Error")

\* C8 (as claimed): active_scan_count is the number of registered sessions
\* whose walk is running.
C8_ActiveCountCountsRunningWalks ==
  active_scan_count = Cardinality({s \in DOMAIN active_scans : WalkRunning(s)})

\* C9: a cancellation flag, once set, stays set in every step.
C9_CancellationIsPermanent ==
  [][\A s \in ScanIds : is_cancelled(s) => is_cancelled(s)']_vars

\* C9 witness: a cancelled session was deregistered, a later cancel for its
\* id found nothing, and the flag still reads set.
C9_Witness ==
  \E s \in ScanIds :
    /\ cancelled[s] /\ pc[s] = "done" /\ s \notin DOMAIN active_scans
    /\ reply = Some([scan_id |-> s, returned |-> Err("NoActiveScan")])

\* C10: a cancel_scan command that answers for scan_id either found the
\* session, and then set that session's flag, returned true and left the
\* registry and every other flag as they were; or did not find it, and then
\* returned NoActiveScan and changed nothing else.
C10_CancelFrame ==
  [][\A scan_id \in ScanIds :
       (reply' # reply /\ reply'[1].scan_id = scan_id) =>
         /\ UNCHANGED <<request, active_scans, pc, scannerVars, channel, relayVars>>
         /\ IF scan_id \in DOMAIN active_scans
            THEN /\ reply'[1].returned = Ok(TRUE)
                 /\ cancelled' = [cancelled EXCEPT ![scan_id] = TRUE]
            ELSE /\ reply'[1].returned = Err("NoActiveScan")
                 /\ cancelled' = cancelled
    ]_vars

\* C10 witness: one of two registered sessions was cancelled; the other's
\* flag is clear.
C10_Witness ==
  \E a, b \in ScanIds :
    /\ a # b /\ {a, b} \subseteq DOMAIN active_scans
    /\ reply = Some([scan_id |-> a, returned |-> Ok(TRUE)])
    /\ cancelled[a] /\ ~cancelled[b]

\* The session of s is in the registry, under its own id.
Registered(s) == s \in DOMAIN active_scans /\ active_scans[s].id = s

\* C11: a session is registered from scan_directory's register_scan until
\* its remove_scan, whatever other scans do; before the call and once
\* scan_directory has returned, with any outcome, the id is absent and
\* get_scan, cancel_scan and get_scan_status report not-found for it.
C11_RegisteredUntilReturn ==
  \A s \in ScanIds :
    IF pc[s] \in {"idle", "done"}
    THEN /\ s \notin DOMAIN active_scans
         /\ get_scan(s) = None
         /\ ~cancel_scan_returns(s)
         /\ get_scan_status(s) = Err("NoActiveScan")
    ELSE /\ Registered(s)
         /\ get_scan(s) = Some(active_scans[s])
         /\ active_scans[s].root_path = RootPath(s)

\* C11 witness: one scan has returned (cancelled) and is deregistered while
\* a concurrent scan, still walking, is registered.
C11_Witness ==
  \E a, b \in ScanIds :
    /\ pc[a] = "done" /\ CancelledOutcome(a) /\ a \notin DOMAIN active_scans
    /\ WalkRunning(b) /\ Registered(b)

\* The snapshots emitted as velox:scan:progress events, in order.
RECURSIVE ForwardedOf(_)
ForwardedOf(evs) ==
  IF evs = <<>> THEN <<>>
  ELSE IF IsProgress(Head(evs))
       THEN <<Head(evs).payload>> \o ForwardedOf(Tail(evs))
       ELSE ForwardedOf(Tail(evs))
Forwarded(s) == ForwardedOf(events[s])

\* a is a subsequence of b: b with some elements left out.
RECURSIVE IsSubsequence(_, _)
IsSubsequence(a, b) ==
  IF a = <<>> THEN TRUE
  ELSE IF b = <<>> THEN FALSE
  ELSE IF Head(a) = Head(b) THEN IsSubsequence(Tail(a), Tail(b))
  ELSE IsSubsequence(a, Tail(b))

NoDuplicates(q) == \A i, j \in DOMAIN q : q[i] = q[j] => i = j

\* C12: the snapshots forwarded to the observer are, in the same order, a
\* subsequence of the snapshots the traversal produced, none forwarded twice;
\* what is still in the channel is the tail of what was produced.
C12_ForwardedInOrder ==
  \A s \in ScanIds :
    /\ NoDuplicates(sent[s])
    /\ NoDuplicates(Forwarded(s))
    /\ Len(channel[s]) <= Len(sent[s])
    /\ IsSubsequence(Forwarded(s),
                     SubSeq(sent[s], 1, Len(sent[s]) - Len(channel[s])))
    /\ channel[s] = SubSeq(sent[s], Len(sent[s]) - Len(channel[s]) + 1, Len(sent[s]))

\* C12 witness: three snapshots were produced, the second was throttled, and
\* the first and third were forwarded.
C12_Witness ==
  \E s \in ScanIds :
    /\ Len(sent[s]) = 3
    /\ Forwarded(s) = <<sent[s][1], sent[s][3]>>

\* Snapshot a comes no later than b in each of the three counters.
CountersLeq(a, b) ==
  /\ a.files_scanned <= b.files_scanned
  /\ a.directories_scanned <= b.directories_scanned
  /\ a.bytes_scanned <= b.bytes_scanned

\* C13: along the snapshots delivered to the observer for one scan, the
\* terminal one included, files_scanned, directories_scanned and
\* bytes_scanned never decrease.
C13_CountersNonDecreasing ==
  \A s \in ScanIds :
    \A i, j \in DOMAIN Forwarded(s) :
      i < j => CountersLeq(Forwarded(s)[i], Forwarded(s)[j])

\* C13 witness: a Scanning snapshot with counted files was delivered and then
\* the Cancelled snapshot.
C13_Witness ==
  \E s \in ScanIds :
    /\ Len(Forwarded(s)) >= 2
    /\ Forwarded(s)[1].status = "Scanning"
    /\ Forwarded(s)[1].files_scanned >= 1
    /\ Forwarded(s)[Len(Forwarded(s))].status = "Cancelled"

\* The result of a scan that returned Ok.
Completed(s) == result[s] # None /\ result[s][1].ok
ResultOf(s) == result[s][1].value

CountDirs(es) == Cardinality({i \in DOMAIN es : es[i].is_directory})
CountFiles(es) == Cardinality({i \in DOMAIN es : es[i].is_file})

\* C14: in a completed scan the entries with is_directory plus the entries
\* with is_file are all the entries, a symlink that is not followed being
\* one of them.
C14_DirsPlusFilesIsAll ==
  \A s \in ScanIds :
    Completed(s) =>
      CountDirs(ResultOf(s).entries) + CountFiles(ResultOf(s).entries)
        = Len(ResultOf(s).entries)

RECURSIVE SumFileSizes(_)
SumFileSizes(es) ==
  IF es = <<>> THEN 0
  ELSE (IF Head(es).is_file THEN Head(es).size ELSE 0) + SumFileSizes(Tail(es))

\* C15: in every ScanResult total_size is the sum of size over the entries
\* with is_file, total_files is the number of those entries and
\* total_directories the number of entries with is_directory; the size of a
\* directory (or of any entry that is not a file) is never added.
C15_TotalsAreTheFold ==
  \A s \in ScanIds :
    Completed(s) =>
      /\ ResultOf(s).total_size = SumFileSizes(ResultOf(s).entries)
      /\ ResultOf(s).total_files = CountFiles(ResultOf(s).entries)
      /\ ResultOf(s).total_directories = CountDirs(ResultOf(s).entries)

\* C15 witness: a ScanResult with several files and with directories whose
\* own size is not zero.
C15_Witness ==
  \E s \in ScanIds :
    /\ Completed(s)
    /\ ResultOf(s).total_files >= 2
    /\ ResultOf(s).total_size >= 3
    /\ \E i \in DOMAIN ResultOf(s).entries :
         ResultOf(s).entries[i].is_directory /\ ResultOf(s).entries[i].size > 0

\* The directory a node is listed in, and the directories above a node.
HasParent(n) == \E p \in Nodes : \E i \in DOMAIN FS[p].children : FS[p].children[i] = n
Parent(n) == CHOOSE p \in Nodes : \E i \in DOMAIN FS[p].children : FS[p].children[i] = n
RECURSIVE Ancestors(_)
Ancestors(n) == IF HasParent(n) THEN {Parent(n)} \cup Ancestors(Parent(n)) ELSE {}
\* The nodes at most k levels below n, going down through the directories
\* that can be read.
RECURSIVE Within(_, _, _)
Within(n, k, follow) ==
  {n} \cup
  (IF k > 0 /\ FileTypeOf(n, follow) = "dir" /\ FS[Resolve(n)].readable
   THEN UNION {Within(FS[Resolve(n)].children[i], k - 1, follow) :
                 i \in DOMAIN FS[Resolve(n)].children}
   ELSE {})
EntryPaths(es) == {es[i].path : i \in DOMAIN es}

\* C16: with include_hidden = false no entry of a result has a name that
\* starts with '.', and none lies below a directory of the walk whose name
\* starts with '.'; with include_hidden = true the result holds every node
\* within max_depth of the root.
C16_HiddenNeverListed ==
  \A s \in ScanIds :
    Completed(s) =>
      LET es == ResultOf(s).entries IN
        IF ~Config(s).include_hidden
        THEN \A i \in DOMAIN es :
               /\ ~starts_with(es[i].name, Dot)
               /\ \A a \in Ancestors(es[i].path) :
                    ~starts_with(to_string_lossy(FS[a].name), Dot)
        ELSE EntryPaths(es) =
               Within(RootPath(s), Config(s).max_depth, Config(s).follow_symlinks)

\* The depth limit a request asks for.
RequestedDepth(s) ==
  IF Request(s).max_depth = None THEN DefaultMaxDepth ELSE Request(s).max_depth[1]
DepthBounded(s) ==
  \A i \in DOMAIN ResultOf(s).entries : ResultOf(s).entries[i].depth <= RequestedDepth(s)
\* The result holds the root, at depth 0 and counted as one directory, and
\* nothing else.
OnlyTheRoot(s) ==
  /\ Len(ResultOf(s).entries) = 1
  /\ ResultOf(s).entries[1].path = RootPath(s)
  /\ ResultOf(s).entries[1].depth = 0
  /\ ResultOf(s).entries[1].is_directory
  /\ ResultOf(s).total_directories = 1
  /\ ResultOf(s).total_files = 0
\* The root is a name the hidden filter excludes under this request.
RootExcluded(s) ==
  /\ ~Request(s).include_hidden
  /\ to_str(FS[RootPath(s)].name) # None
  /\ starts_with(FS[RootPath(s)].name, Dot)

Accumulated(s) == <<entries[s], total_files[s], total_directories[s], total_size[s]>>

\* C18: once the flag is set, no further node visit begins; the entries and
\* counters change only by the one node that was already being visited, which
\* adds one entry; the next pre-node check, if the walker yields another
\* item, stops the walk, and the stop returns ScanCancelled with entries and
\* counters as they were.
C18_CancelWithinOneVisit ==
  [][\A s \in ScanIds :
       cancelled[s] =>
         /\ pc'[s] = "visit" => pc[s] = "visit"
         /\ Accumulated(s)' # Accumulated(s) =>
              /\ pc[s] = "visit"
              /\ Len(entries'[s]) = Len(entries[s]) + 1
         /\ (pc[s] = "loop" /\ walker[s] # <<>> /\ pc'[s] # "loop") =>
              pc'[s] = "send_cancelled"
         /\ (pc[s] = "send_cancelled" /\ pc'[s] # "send_cancelled") =>
              /\ result'[s] = Some(Err("ScanCancelled"))
              /\ Last(sent'[s]).status = "Cancelled"
              /\ Accumulated(s)' = Accumulated(s)
    ]_vars

\* C18 witness: a cancelled walk has stopped at a pre-node check in the
\* middle of the tree, with entries accumulated and items left in the walker.
C18_Witness ==
  \E s \in ScanIds :
    /\ cancelled[s]
    /\ pc[s] = "send_cancelled"
    /\ Len(entries[s]) >= 2
    /\ Len(walker[s]) >= 1

\* execute_scan has returned.
WalkReturned(s) == Validated(s) /\ pc[s] \in {"join", "scan_returned", "done"}
IsTerminal(progress) == progress.status # "Scanning"
\* The counters of a snapshot are the counters of execute_scan.
CarriesCounters(progress, s) ==
  /\ progress.files_scanned = total_files[s]
  /\ progress.directories_scanned = total_directories[s]
  /\ progress.bytes_scanned = total_size[s]

\* C19: every snapshot produced but the last of a walk that has returned is a
\* Scanning snapshot with percent 0 and no estimated total; a walk that has
\* returned produced one terminal snapshot, its last: Cancelled, percent 0,
\* no estimated total and the accumulated counters if it returned
\* ScanCancelled; Completed, percent 100 and estimated_total = total_files +
\* total_directories of the ScanResult if it returned one.
C19_OneTerminalSnapshotLast ==
  \A s \in ScanIds :
    /\ \A i \in DOMAIN sent[s] :
         (i < Len(sent[s]) \/ ~WalkReturned(s)) =>
           /\ sent[s][i].status = "Scanning"
           /\ sent[s][i].progress_percent = 0
           /\ sent[s][i].estimated_total = None
    /\ WalkReturned(s) =>
         /\ sent[s] # <<>>
         /\ result[s] # None
         /\ IF result[s][1].ok
            THEN /\ Last(sent[s]).status = "Completed"
                 /\ Last(sent[s]).progress_percent = 100
                 /\ Last(sent[s]).estimated_total =
                      Some(ResultOf(s).total_files + ResultOf(s).total_directories)
                 /\ Last(sent[s]).files_scanned = ResultOf(s).total_files
                 /\ Last(sent[s]).directories_scanned = ResultOf(s).total_directories
                 /\ Last(sent[s]).bytes_scanned = ResultOf(s).total_size
            ELSE /\ result[s] = Some(Err("ScanCancelled"))
                 /\ Last(sent[s]).status = "Cancelled"
                 /\ Last(sent[s]).progress_percent = 0
                 /\ Last(sent[s]).estimated_total = None
                 /\ CarriesCounters(Last(sent[s]), s)

\* C19 witness: a walk that produced Scanning snapshots returned a ScanResult
\* with an entry that is neither a file nor a directory, so that the estimated
\* total of its Completed snapshot is less than the number of entries.
C19_Witness ==
  \E s \in ScanIds :
    /\ WalkReturned(s) /\ Completed(s)
    /\ Len(sent[s]) >= 2
    /\ Last(sent[s]).estimated_total # None
    /\ Last(sent[s]).estimated_total[1] < Len(ResultOf(s).entries)

\* The relay takes a snapshot of s out of the channel in this step.
Received(s) == channel[s] # <<>> /\ channel'[s] = Tail(channel[s])

\* C20: the relay forwards the Scanning snapshot it receives if and only if
\* last_emit is at least 50 ms old (last_emit being the time of the last
\* forward or, before any, of the relay's start); a snapshot forwarded less
\* than 50 ms after the one before is terminal; and what is forwarded is the
\* received snapshot, no field changed. The relay emits nothing else.
C20_ThrottleScanningOnly ==
  [][\A s \in ScanIds :
       /\ Received(s) =>
            LET progress == Head(channel[s])
                forwarded == events'[s] = Append(events[s], ProgressEvent(progress))
            IN /\ forwarded \/ events'[s] = events[s]
               /\ ~IsTerminal(progress) => (forwarded <=> last_emit[s] >= EmitIntervalMs)
               /\ IsTerminal(progress) => forwarded
               /\ forwarded =>
                    /\ emit_gap'[s] = Append(emit_gap[s], last_emit[s])
                    /\ last_emit[s] < EmitIntervalMs => IsTerminal(progress)
                    /\ Last(ForwardedOf(events'[s])) = progress
       /\ ForwardedOf(events'[s]) # Forwarded(s) => Received(s)
    ]_vars

\* C20 witness: a Scanning snapshot was forwarded 50 ms after the relay
\* started, another snapshot was throttled, and the terminal snapshot was
\* forwarded less than 50 ms after the one before it.
C20_Witness ==
  \E s \in ScanIds :
    /\ Len(Forwarded(s)) >= 2
    /\ ~IsTerminal(Forwarded(s)[1]) /\ emit_gap[s][1] >= EmitIntervalMs
    /\ IsTerminal(Last(Forwarded(s))) /\ Last(emit_gap[s]) < EmitIntervalMs
    /\ channel[s] = <<>>
    /\ Len(Forwarded(s)) < Len(sent[s])

\* The walk of s yields an Err item.
WalkHasError(s) ==
  \E i \in DOMAIN Walk(RootPath(s), Config(s)) : ~Walk(RootPath(s), Config(s))[i].ok
Outcomes ==
  {Some(Err("InvalidPath")), Some(Err("ScanCancelled"))}

\* C21: the step of execute_scan from an Err item changes neither the
\* entries nor the counters, produces no outcome and goes on to the next
\* item; the outcome of a scan is a ScanResult, InvalidPath or ScanCancelled,
\* and a validated scan that returned without the flag set returned a
\* ScanResult, unreadable entries or not.
C21_OnlyValidationAndCancelInterrupt ==
  [][\A s \in ScanIds :
       /\ (pc[s] = "visit" /\ ~entry_result[s][1].ok /\ pc'[s] # "visit") =>
            /\ Accumulated(s)' = Accumulated(s)
            /\ walker'[s] = walker[s]
            /\ result'[s] = None
            /\ pc'[s] = "loop"
       /\ result'[s] # None => (result'[s][1].ok \/ result'[s] \in Outcomes)
       /\ (Returned(s)' /\ Validated(s)' /\ ~cancelled'[s]) => Completed(s)'
    ]_vars

\* C21 witness: a scan whose walk met an unreadable directory, and was not
\* cancelled, completed with the entries that come after that directory.
C21_Witness ==
  \E s \in ScanIds :
    /\ Completed(s) /\ ~cancelled[s]
    /\ WalkHasError(s)
    /\ \E i, j \in DOMAIN ResultOf(s).entries :
         /\ i < j
         /\ ~FS[ResultOf(s).entries[i].path].readable
         /\ ResultOf(s).entries[i].depth = ResultOf(s).entries[j].depth

\* scan_directory of s has returned an outcome and removed its session.
Deregistered(s) == pc[s] = "done" /\ result[s] # None /\ get_scan(s) = None

\* C22: under fair scheduling of the scan and of the relay, every scan that
\* was requested returns an outcome and is deregistered, and once
\* execute_scan has returned, on either exit path, the relay's loop ends.
C22_EveryScanReturns ==
  \A s \in ScanIds :
    /\ (request[s] # None) ~> Deregistered(s)
    /\ (pc[s] = "join") ~> (relay[s] = "done" /\ channel[s] = <<>>)

\* C22 witness: a scan that sent more snapshots than the channel holds has
\* returned and is deregistered, its relay ended.
C22_Witness ==
  \E s \in ScanIds :
    /\ Deregistered(s)
    /\ relay[s] = "done"
    /\ Len(sent[s]) > ChannelCapacity

\* The snapshots the relay has received so far: those sent that are no
\* longer in the channel.
ReceivedOf(s) == SubSeq(sent[s], 1, Len(sent[s]) - Len(channel[s]))
InSeq(x, q) == \E i \in DOMAIN q : q[i] = x

\* C23: the channel holds, in order, exactly the snapshots sent and not yet
\* received, never more than its capacity; the relay ends only after
\* execute_scan has returned and every snapshot sent has been received; a
\* step changes the channel only by adding the snapshot just sent at the back
\* or by handing the front one to the relay, which forwards it to the
\* observer or, if it is a Scanning snapshot, may drop it.
C23_ChannelLosesNothing ==
  [][\A s \in ScanIds :
       /\ Len(channel'[s]) <= ChannelCapacity
       /\ Len(channel'[s]) <= Len(sent'[s])
       /\ channel'[s] =
            SubSeq(sent'[s], Len(sent'[s]) - Len(channel'[s]) + 1, Len(sent'[s]))
       /\ relay'[s] = "done" => (channel'[s] = <<>> /\ result'[s] # None)
       /\ channel'[s] # channel[s] =>
            \/ /\ sent'[s] = Append(sent[s], Last(sent'[s]))
               /\ channel'[s] = Append(channel[s], Last(sent'[s]))
            \/ /\ sent'[s] = sent[s]
               /\ channel[s] # <<>> /\ channel'[s] = Tail(channel[s])
               /\ relay[s] = "running"
               /\ \/ events'[s] = Append(events[s], ProgressEvent(Head(channel[s])))
                  \/ events'[s] = events[s] /\ Head(channel[s]).status = "Scanning"
       /\ sent'[s] # sent[s] => Len(channel'[s]) = Len(channel[s]) + 1
    ]_vars

\* C23 witness: the relay has ended after receiving more snapshots than the
\* channel holds; the Completed snapshot reached the observer and a Scanning
\* snapshot was dropped by the throttle.
C23_Witness ==
  \E s \in ScanIds :
    /\ relay[s] = "done"
    /\ Len(ReceivedOf(s)) > ChannelCapacity
    /\ Last(Forwarded(s)).status = "Completed"
    /\ \E i \in DOMAIN sent[s] : ~InSeq(sent[s][i], Forwarded(s))

\* A scan of a directory whose own name the hidden filter excludes.
ExcludedRootScan(s) ==
  request[s] # None /\ PathIsDir(RootPath(s)) /\ RootExcluded(s)
\* The Completed snapshot of a walk that visited nothing.
EmptyCompleted(s) ==
  [scan_id |-> s, current_path |-> MissingPath,
   files_scanned |-> 0, directories_scanned |-> 0, bytes_scanned |-> 0,
   progress_percent |-> 100, estimated_total |-> Some(0), status |-> "Completed"]

====
